---- MODULE Spec2Model ----
(***************************************************************************)
(* A model of ring.func.lru_cache.LruCache: the key -> link dictionary,    *)
(* the circular doubly linked list of links anchored at self.root, the     *)
(* stat list [FULL, HITS, MISSES] and the closures get, set, delete,       *)
(* clear and cache_info.  Every closure runs under the engine's RLock, so  *)
(* a call is one atomic step; a call that raises keeps the assignments it  *)
(* made before the raising statement.  What a call returns and whether it  *)
(* raises are operators over the state in which it is made.                *)
(*                                                                         *)
(* Spec, SpecGetSet, SpecPresentDelete and SpecUnbounded drive one engine  *)
(* by calls made one after another.  SpecThreads and SpecThreadsFair have  *)
(* two threads call the closures, each call being `with lock:` around the  *)
(* body.  SpecRegistry is ring.coder's Registry with coderize, starting at *)
(* the default registry of the module, and SpecCoder sends values through  *)
(* the built-in coders.                                                    *)
(***************************************************************************)
EXTENDS Integers, Sequences, FiniteSets, TLC

(* ---- bounds of the model ---- *)
MaxMaxsize == 2     \* maxsize is drawn from 0..MaxMaxsize
MaxLinks == 4       \* links ever allocated at one time, the root included
MaxCount == 1       \* hits and misses are counted up to MaxCount
MaxLen == 2         \* items of a list or tuple and entries of a dict given to a coder

Keys == {"a", "b", "c"}
None == "None"

\* LruCache(None): the constructor takes any object for maxsize.  The model
\* keeps maxsize an integer and writes None as -1, below every size, which is
\* where Python 2 orders None.
MaxsizeNone == -1
Values == {None, "v1"}
SENTINEL == "SENTINEL"

(* names for the link fields and for stat (1-based tuple positions) *)
PREV == 1
NEXT == 2
KEY == 3
RESULT == 4
FULL == 1
HITS == 2
MISSES == 3

LinkIds == 0 .. (MaxLinks - 1)

VARIABLES
    maxsize,    \* the constructor argument
    cache,      \* dict: key -> id of its link
    links,      \* heap of list objects: id -> <<prev, next, key, result>>
    root,       \* self.root: id of the root link
    stat,       \* <<full, hits, misses>>
    call,       \* the last call: its operation, and whether it evicted a key
    lastset,    \* history: live key -> the value of the last set call for it
    used,       \* history: live keys, oldest last get-hit or insertion first
    lock,       \* the engine's RLock: its owner and recursion count
    pc,         \* thread -> where it is in the closure it called
    pending,    \* thread -> the call it is making
    coders,     \* Registry.coders: name -> coder
    asked,      \* the last call on the registry: operation, name, raw coder
    trip        \* a value on its way through a coder: data, binary, loaded

vars == <<maxsize, cache, links, root, stat, call, lastset, used, lock, pc, pending,
          coders, asked, trip>>

\* ring.coder, which the engine never touches
codervars == <<coders, asked, trip>>

(* ---- helpers over Python objects ---- *)
EmptyDict == [k \in {} |-> 0]
DictDel(d, k) == [x \in (DOMAIN d) \ {k} |-> d[x]]
DictSet(d, k, v) == [x \in (DOMAIN d) \cup {k} |-> IF x = k THEN v ELSE d[x]]
cache_len(d) == Cardinality(DOMAIN d)

\* lst[f] = v on the list object with id n
Put(l, n, f, v) == [l EXCEPT ![n][f] = v]

\* a fresh list object: the smallest id not in use
NewId(l) == CHOOSE n \in LinkIds \ DOMAIN l : \A m \in LinkIds \ DOMAIN l : n <= m

SelfLoop(r) == <<r, r, None, None>>

Call(op, evicted) == [op |-> op, evicted |-> evicted]

\* del d[k] raises KeyError
DelRaises(d, k) == k \notin DOMAIN d

\* the links in ring order: r, r.next, r.next.next, ... until r comes back
RECURSIVE Walk(_, _, _, _)
Walk(l, r, n, acc) ==
    IF Len(acc) >= Cardinality(DOMAIN l) \/ (acc # <<>> /\ n = r) THEN acc
    ELSE Walk(l, r, l[n][NEXT], Append(acc, n))

Order(l, r) == Walk(l, r, r, <<>>)

\* Object identity: a list object has no name of its own, so after a call the
\* objects are named by their place in the ring, the root being 0.  A ring
\* that does not hold every object keeps the names it has.
Index(o, n) == (CHOOSE i \in 1 .. Len(o) : o[i] = n) - 1

\* the engine's objects <<cache, links, root>> named by the ring order o
Rename(o, c, l, r) ==
    IF {o[i] : i \in 1 .. Len(o)} = DOMAIN l
    THEN [cache |-> [k \in DOMAIN c |-> Index(o, c[k])],
          links |-> [m \in 0 .. (Len(o) - 1) |->
                       <<Index(o, l[o[m + 1]][PREV]), Index(o, l[o[m + 1]][NEXT]),
                         l[o[m + 1]][KEY], l[o[m + 1]][RESULT]>>],
          root |-> Index(o, r)]
    ELSE [cache |-> c, links |-> l, root |-> r]

Named(c, l, r) ==
    CHOOSE e \in {Rename(o, c, l, r) : o \in {Order(l, r)}} : TRUE

\* the keys of S in a dict
DictKeep(d, S) == [k \in (DOMAIN d) \cap S |-> d[k]]

\* remove the keys not in S from a sequence of keys
RECURSIVE Restrict(_, _)
Restrict(s, S) ==
    IF s = <<>> THEN <<>>
    ELSE IF Head(s) \in S THEN <<Head(s)>> \o Restrict(Tail(s), S)
    ELSE Restrict(Tail(s), S)

(* ---- cache_info ---- *)
cache_info == <<stat[HITS], stat[MISSES], maxsize, cache_len(cache)>>

(* ---- get ---- *)
\* a get that leaves the link where it is
MoveToFront_stay(l, r, link) == l

\* lines 38-44: unlink the link and put it before the root
MoveToFront(l, r, link) ==
    LET link_prev == l[link][PREV]
        link_next == l[link][NEXT]
        l1 == Put(l, link_prev, NEXT, link_next)
        l2 == Put(l1, link_next, PREV, link_prev)
        last == l2[r][PREV]
        l3 == Put(l2, last, NEXT, link)
        l4 == Put(l3, r, PREV, link)
        l5 == Put(l4, link, PREV, last)
    IN  Put(l5, link, NEXT, r)

HitStat(s) == [s EXCEPT ![HITS] = s[HITS] + 1]
MissStat(s) == [s EXCEPT ![MISSES] = s[MISSES] + 1]

\* line 35: cache_get(key) found a link
Found(c, key) == key \in DOMAIN c

\* a get that takes a stored None for a missing entry
HitResult_none(l, link) ==
    IF l[link][RESULT] = None THEN SENTINEL ELSE l[link][RESULT]

\* lines 38, 46: what get returns for the link found
HitResult(l, link) == l[link][RESULT]

\* what get(key) returns
get_returns(key) ==
    IF Found(cache, key) THEN HitResult(links, cache[key]) ELSE SENTINEL

Get(key) ==
    IF Found(cache, key)
    THEN /\ stat[HITS] < MaxCount
         /\ \E e \in {Named(cache, MoveToFront(links, root, cache[key]), root)} :
                /\ cache' = e.cache
                /\ links' = e.links
                /\ root' = e.root
         /\ stat' = HitStat(stat)
         /\ call' = Call("get", FALSE)
         /\ used' = Restrict(used, DOMAIN cache \ {key}) \o <<key>>
         /\ UNCHANGED <<maxsize, lastset>>
    ELSE /\ stat[MISSES] < MaxCount
         /\ stat' = MissStat(stat)
         /\ call' = Call("get", FALSE)
         /\ UNCHANGED <<maxsize, cache, links, root, lastset, used>>

(* ---- delete ---- *)
\* a delete that leaves the full flag as it is
DeleteStat_keep(s) == s

DeleteStat(s) == [s EXCEPT ![FULL] = FALSE]

Delete(key) ==
    IF ~DelRaises(cache, key)
    THEN /\ cache' = DictDel(cache, key)
         /\ stat' = DeleteStat(stat)
         /\ call' = Call("delete", FALSE)
         /\ lastset' = DictKeep(lastset, DOMAIN cache')
         /\ used' = Restrict(used, DOMAIN cache')
         /\ UNCHANGED <<maxsize, links, root>>
    ELSE \* KeyError, before stat[FULL] is assigned
         /\ call' = Call("delete", FALSE)
         /\ UNCHANGED <<maxsize, cache, links, root, stat, lastset, used>>

(* ---- set ---- *)
\* a full test that is off by one
IsFull_gt(n, m) == n > m

\* line 92
IsFull(n, m) == n >= m

\* line 92 with maxsize = None: Python 3 raises TypeError for int >= None
\* (Python 2 compares, and finds every int greater than None)
IsFullRaises(m) == m = MaxsizeNone

\* an overwrite that does not store the result
Overwrite_drop(l, link, result) == l

\* line 62: store the new result in the link found
Overwrite(l, link, result) == Put(l, link, RESULT, result)

\* lines 65-77: the old root takes the key and result, its successor is emptied
Rotate(l, r, key, result) ==
    LET l1 == Put(l, r, KEY, key)
        l2 == Put(l1, r, RESULT, result)
        newroot == l2[r][NEXT]
        l3 == Put(l2, newroot, KEY, None)
    IN  Put(l3, newroot, RESULT, None)

\* lines 87-89: a new link before the root
Insert(l, r, link, key, result) ==
    LET last == l[r][PREV]
        l0 == [n \in (DOMAIN l) \cup {link} |->
                  IF n = link THEN <<last, r, key, result>> ELSE l[n]]
        l1 == Put(l0, last, NEXT, link)
    IN  Put(l1, r, PREV, link)

\* set(key, result) raises KeyError: the link after the root holds a key that
\* is not in the dict
set_raises(key) ==
    /\ ~Found(cache, key)
    /\ stat[FULL]
    /\ DelRaises(cache, links[links[root][NEXT]][KEY])

Set(key, result) ==
    /\ UNCHANGED maxsize
    /\ IF Found(cache, key)
       THEN /\ links' = Overwrite(links, cache[key], result)
            /\ call' = Call("set", FALSE)
            /\ UNCHANGED <<cache, root, stat, used>>
       ELSE IF stat[FULL]
       THEN LET oldroot == root
                newroot == links[oldroot][NEXT]
                oldkey == links[newroot][KEY]
                rotated == Rotate(links, oldroot, key, result)
                raised == DelRaises(cache, oldkey)
            IN  \E e \in {Named(IF raised THEN cache
                               ELSE DictSet(DictDel(cache, oldkey), key, oldroot),
                               rotated, newroot)} :
                /\ cache' = e.cache
                /\ links' = e.links
                /\ root' = e.root
                /\ UNCHANGED stat
                /\ call' = Call("set", ~raised)
                /\ used' = IF raised THEN used
                           ELSE Restrict(used, DOMAIN cache \ {oldkey}) \o <<key>>
       ELSE /\ LinkIds \ DOMAIN links # {}
            /\ \E e \in {Named(DictSet(cache, key, NewId(links)),
                               Insert(links, root, NewId(links), key, result), root)} :
                   /\ cache' = e.cache
                   /\ links' = e.links
                   /\ root' = e.root
            /\ \/ stat' = [stat EXCEPT ![FULL] = IsFull(cache_len(cache'), maxsize)]
               \/ \* TypeError, after the link is in the ring and in the dict
                  IsFullRaises(maxsize) /\ stat' = stat
            /\ call' = Call("set", FALSE)
            /\ used' = used \o <<key>>
    /\ lastset' = [k \in DOMAIN cache' |-> IF k = key THEN result ELSE lastset[k]]

(* ---- clear ---- *)
\* a clear that keeps the counters
ClearStat_keep(s) == <<FALSE, s[HITS], s[MISSES]>>

\* line 105
ClearStat(s) == <<FALSE, 0, 0>>

Clear ==
    /\ \E e \in {Named(EmptyDict, [n \in {root} |-> SelfLoop(root)], root)} :
           /\ cache' = e.cache
           /\ links' = e.links
           /\ root' = e.root
    /\ stat' = ClearStat(stat)
    /\ call' = Call("clear", FALSE)
    /\ lastset' = EmptyDict
    /\ used' = <<>>
    /\ UNCHANGED maxsize

(* ---- ring.coder: coderize and the Registry ---- *)
\* A Python object as coderize sees it: its type, its items if it is a tuple,
\* and its encode and decode attributes (Missing when hasattr is False).
\* Functions are known by their names.
Missing == "Missing"
Obj(type, items, encode, decode) ==
    [type |-> type, items |-> items, encode |-> encode, decode |-> decode]

\* a pair with its two functions in each other's place
CoderTuple_swapped(encode, decode) ==
    Obj("CoderTuple", <<decode, encode>>, decode, encode)

\* line 62: the namedtuple; its fields are its two items
CoderTuple(encode, decode) == Obj("CoderTuple", <<encode, decode>>, encode, decode)

\* lines 126-141: an instance of the Coder subclass JsonCoder
JsonCoder == Obj("JsonCoder", <<>>, "JsonCoder.encode", "JsonCoder.decode")

\* Python's None, returned by dict.get for a missing key
NoCoder == Obj("NoneType", <<>>, Missing, Missing)

\* the raw coders given to register
RawCoders ==
    {JsonCoder, CoderTuple("f", "g"), NoCoder,
     Obj("tuple", <<"f", "g">>, Missing, Missing),
     Obj("tuple", <<"g", "f">>, Missing, Missing),
     Obj("tuple", <<"f">>, Missing, Missing),
     Obj("tuple", <<"f", "g", "f">>, Missing, Missing),
     Obj("str", <<>>, "str.encode", Missing),
     Obj("str", <<>>, "str.encode", "str.decode"),
     Obj("object", <<>>, "f", "g"),
     Obj("object", <<>>, "f", Missing),
     Obj("object", <<>>, Missing, "g"),
     Obj("object", <<>>, Missing, Missing)}

\* the names coders are registered under and looked up by
CoderNames == {None, "json", "pickle", "mine"}

\* line 67: isinstance(raw_coder, Coder); line 63 makes CoderTuple one
IsCoder(raw) == raw.type \in {"JsonCoder", "CoderTuple"}

\* lines 70-80: coderize raises TypeError (line 74 by the namedtuple, for a
\* tuple that has not two items)
coderize_raises(raw) ==
    IF IsCoder(raw) THEN FALSE
    ELSE IF raw.type = "str" THEN TRUE
    ELSE IF raw.type = "tuple" THEN Len(raw.items) # 2
    ELSE ~(raw.encode # Missing /\ raw.decode # Missing)

\* lines 66-81: what coderize returns when it does not raise
coderize(raw) ==
    IF IsCoder(raw) THEN raw
    ELSE IF raw.type = "tuple" THEN CoderTuple(raw.items[1], raw.items[2])
    ELSE CoderTuple(raw.encode, raw.decode)

\* a register that stores the raw coder before coderize has accepted it
registered_early(d, name, raw) ==
    IF coderize_raises(raw) THEN DictSet(d, name, raw)
    ELSE DictSet(d, name, coderize(raw))

\* lines 108-109: the dict after register(name, raw)
registered(d, name, raw) ==
    IF coderize_raises(raw) THEN d ELSE DictSet(d, name, coderize(raw))

\* a get that falls back to the default coder
registry_get_default(d, name) == IF name \in DOMAIN d THEN d[name] ELSE d[None]

\* line 117: what Registry.get(name) returns
registry_get(d, name) == IF name \in DOMAIN d THEN d[name] ELSE NoCoder

Asked(op, name, raw) == [op |-> op, name |-> name, raw |-> raw]

\* lines 148-151: the registry of the module
DefaultRegistry ==
    registered(
        registered(
            registered(EmptyDict, None, Obj("tuple", <<"bypass", "bypass">>, Missing, Missing)),
            "json", JsonCoder),
        "pickle", Obj("tuple", <<"pickle.dumps", "pickle.loads">>, Missing, Missing))

(* ---- the values given to the coders, and what the coders do ---- *)
\* A Python value: its type, its text if it is an atom, its items if it is a
\* container.  A dict holds its entries in insertion order, an entry holds
\* <<key, value>>.
Py(t, a, items) == [t |-> t, a |-> a, items |-> items]
PyNone == Py("NoneType", "None", <<>>)
PyList(items) == Py("list", "", items)
PyTuple(items) == Py("tuple", "", items)
PyDict(entries) == Py("dict", "", entries)
PyBytes(format, content) == Py("bytes", format, <<content>>)

Atoms == {PyNone, Py("bool", "True", <<>>), Py("int", "1", <<>>),
          Py("str", "k", <<>>), Py("str", "1", <<>>)}
DictKeys == {Py("int", "1", <<>>), Py("str", "k", <<>>), Py("str", "1", <<>>)}

SeqsUpTo(S, n) == UNION {[1 .. k -> S] : k \in 0 .. n}

\* the dicts with values in S: entries with distinct keys
DictsOf(S) ==
    {PyDict(es) : es \in
        {e \in SeqsUpTo({Py("item", "", <<k, v>>) : k \in DictKeys, v \in S}, MaxLen) :
            \A i, j \in 1 .. Len(e) : e[i].items[1] = e[j].items[1] => i = j}}

\* containers of atoms
Flat ==
    {PyList(xs) : xs \in SeqsUpTo(Atoms, MaxLen)}
    \cup {PyTuple(xs) : xs \in SeqsUpTo(Atoms, MaxLen)}
    \cup DictsOf(Atoms)

\* and a container in a list, in a tuple, and as the value of a dict entry
PyValues ==
    Atoms \cup Flat
    \cup {PyList(<<x>>) : x \in Flat}
    \cup {PyTuple(<<x>>) : x \in Flat}
    \cup {PyDict(<<Py("item", "", <<k, x>>)>>) : k \in DictKeys, x \in Flat}

\* line 121
bypass(x) == x

\* json.dumps writes a dict key that is no str as the text of its value
KeyName(k) ==
    IF k.t = "bool" THEN (IF k.a = "True" THEN "true" ELSE "false")
    ELSE IF k.t = "NoneType" THEN "null"
    ELSE k.a

\* json.dumps: the JSON document of a value; a tuple is written as a list is
RECURSIVE json_dumps(_)
json_dumps(v) ==
    IF v.t = "NoneType" THEN Py("null", "", <<>>)
    ELSE IF v.t = "bool" THEN Py(KeyName(v), "", <<>>)
    ELSE IF v.t = "int" THEN Py("number", v.a, <<>>)
    ELSE IF v.t = "str" THEN Py("string", v.a, <<>>)
    ELSE IF v.t \in {"list", "tuple"}
    THEN Py("array", "", [i \in 1 .. Len(v.items) |-> json_dumps(v.items[i])])
    ELSE Py("object", "",
            [i \in 1 .. Len(v.items) |->
               Py("member", KeyName(v.items[i].items[1]),
                  <<json_dumps(v.items[i].items[2])>>)])

\* d[key] = value on the entries of a dict
RECURSIVE SetEntry(_, _, _)
SetEntry(entries, key, value) ==
    IF entries = <<>> THEN <<Py("item", "", <<key, value>>)>>
    ELSE IF Head(entries).items[1] = key
    THEN <<Py("item", "", <<key, value>>)>> \o Tail(entries)
    ELSE <<Head(entries)>> \o SetEntry(Tail(entries), key, value)

\* a loads that gives a JSON array back as a tuple
FromArray_tuple(items) == PyTuple(items)

\* json.loads gives a list for a JSON array
FromArray(items) == PyList(items)

\* json.loads: the value of a JSON document; the keys of a dict are strs,
\* and of two members of one name the later one stays
RECURSIVE json_loads(_)
RECURSIVE LoadMembers(_, _)
LoadMembers(members, entries) ==
    IF members = <<>> THEN entries
    ELSE LoadMembers(Tail(members),
                     SetEntry(entries, Py("str", Head(members).a, <<>>),
                              json_loads(Head(members).items[1])))

json_loads(doc) ==
    IF doc.t = "null" THEN PyNone
    ELSE IF doc.t = "true" THEN Py("bool", "True", <<>>)
    ELSE IF doc.t = "false" THEN Py("bool", "False", <<>>)
    ELSE IF doc.t = "number" THEN Py("int", doc.a, <<>>)
    ELSE IF doc.t = "string" THEN Py("str", doc.a, <<>>)
    ELSE IF doc.t = "array"
    THEN FromArray([i \in 1 .. Len(doc.items) |-> json_loads(doc.items[i])])
    ELSE PyDict(LoadMembers(doc.items, <<>>))

\* line 136: the text of the document as UTF-8 bytes
JsonCoder_encode(data) == PyBytes("utf-8", json_dumps(data))

\* line 141
JsonCoder_decode(binary) == json_loads(binary.items[1])

\* pickle.dumps: a byte stream that holds every object with its type
pickle_dumps(data) == PyBytes("pickle", data)

\* pickle.loads rebuilds the objects of the stream
pickle_loads(binary) == binary.items[1]

\* calling a function known by its name
Apply(fn, x) ==
    CASE fn = "bypass" -> bypass(x)
      [] fn = "JsonCoder.encode" -> JsonCoder_encode(x)
      [] fn = "JsonCoder.decode" -> JsonCoder_decode(x)
      [] fn = "pickle.dumps" -> pickle_dumps(x)
      [] fn = "pickle.loads" -> pickle_loads(x)

Trip(coder, stage, data, binary, loaded) ==
    [coder |-> coder, stage |-> stage, data |-> data, binary |-> binary,
     loaded |-> loaded]

NoTrip == Trip(None, "none", PyNone, PyNone, PyNone)

\* ring.coder is imported, and no coder has been used
ModuleLoaded ==
    /\ coders = DefaultRegistry
    /\ asked = Asked("init", None, NoCoder)
    /\ trip = NoTrip

\* lines 95-109
Register(name, raw) ==
    /\ coders' = registered(coders, name, raw)
    /\ asked' = Asked("register", name, raw)
    /\ UNCHANGED <<maxsize, cache, links, root, stat, call, lastset, used,
                   lock, pc, pending, trip>>

\* lines 111-118
RegistryGet(name) ==
    /\ asked' = Asked("get", name, NoCoder)
    /\ UNCHANGED <<maxsize, cache, links, root, stat, call, lastset, used,
                   lock, pc, pending, coders, trip>>

(* ---- the lock, and the threads calling into one engine ---- *)
Threads == {"t1", "t2"}

\* line 26: a new RLock is owned by no thread
Unlocked == [owner |-> None, count |-> 0]

NoCall == [op |-> None, key |-> None, result |-> None]

\* no thread is in a call
NoThreads ==
    /\ lock = Unlocked
    /\ pc = [t \in Threads |-> "idle"]
    /\ pending = [t \in Threads |-> NoCall]

\* a call made with no other call in progress
Serial(A) == A /\ UNCHANGED <<lock, pc, pending, codervars>>

(* ---- __init__ ---- *)
Init ==
    /\ maxsize \in 0 .. MaxMaxsize
    /\ cache = EmptyDict
    /\ root = 0
    /\ links = [n \in {0} |-> SelfLoop(0)]
    /\ stat = <<FALSE, 0, 0>>
    /\ call = Call("init", FALSE)
    /\ lastset = EmptyDict
    /\ used = <<>>
    /\ NoThreads
    /\ ModuleLoaded

\* LruCache(None)
InitUnbounded ==
    /\ maxsize = MaxsizeNone
    /\ cache = EmptyDict
    /\ root = 0
    /\ links = [n \in {0} |-> SelfLoop(0)]
    /\ stat = <<FALSE, 0, 0>>
    /\ call = Call("init", FALSE)
    /\ lastset = EmptyDict
    /\ used = <<>>
    /\ NoThreads
    /\ ModuleLoaded

Next ==
    \/ \E key \in Keys : Serial(Get(key))
    \/ \E key \in Keys, result \in Values : Serial(Set(key, result))
    \/ \E key \in Keys : Serial(Delete(key))
    \/ Serial(Clear)

Spec == Init /\ [][Next]_vars

\* the engine driven by get and set calls alone
NextGetSet ==
    \/ \E key \in Keys : Serial(Get(key))
    \/ \E key \in Keys, result \in Values : Serial(Set(key, result))

SpecGetSet == Init /\ [][NextGetSet]_vars

SpecUnbounded == InitUnbounded /\ [][Next]_vars

(* ---- threads: every closure is `with lock:` around its body ---- *)
\* the calls a thread can make: two keys are set, one of them is also read
\* and deleted
Calls ==
    [op : {"get", "delete"}, key : {"a"}, result : {None}]
    \cup [op : {"set"}, key : {"a", "b"}, result : {"v1"}]
    \cup [op : {"clear", "cache_info"}, key : {None}, result : {None}]

\* the calls of the kind op that are begun and have not run their body
InFlight(op) ==
    Cardinality({t \in Threads : pc[t] \in {"with", "body"} /\ pending[t].op = op})

\* a thread calls a closure and comes to its `with lock:`; the counters and
\* the link heap of the model have room for the call
Begin(t, c) ==
    /\ pc[t] = "idle"
    /\ c.op = "get" =>
          /\ stat[HITS] + InFlight("get") < MaxCount
          /\ stat[MISSES] + InFlight("get") < MaxCount
    /\ c.op = "set" => Cardinality(DOMAIN links) + InFlight("set") < MaxLinks
    /\ pc' = [pc EXCEPT ![t] = "with"]
    /\ pending' = [pending EXCEPT ![t] = c]
    /\ UNCHANGED <<maxsize, cache, links, root, stat, call, lastset, used, lock, codervars>>

\* a lock that any thread can take at any time
CanAcquire_always(l, t) == TRUE

\* RLock.acquire does not block: the lock is free, or the caller owns it
CanAcquire(l, t) == l.owner \in {None, t}

\* lock.__enter__
Acquire(t) ==
    /\ pc[t] = "with"
    /\ CanAcquire(lock, t)
    /\ lock' = [owner |-> t, count |-> lock.count + 1]
    /\ pc' = [pc EXCEPT ![t] = "body"]
    /\ UNCHANGED <<maxsize, cache, links, root, stat, call, lastset, used, pending, codervars>>

\* lines 94-97
CacheInfo ==
    /\ call' = Call("cache_info", FALSE)
    /\ UNCHANGED <<maxsize, cache, links, root, stat, lastset, used>>

\* the body of the call c ends by an exception
Raises(c) ==
    \/ c.op = "set" /\ set_raises(c.key)
    \/ c.op = "delete" /\ DelRaises(cache, c.key)

\* the body of the closure, run by the thread that is inside `with lock:`
Body(t) ==
    /\ pc[t] = "body"
    /\ \/ pending[t].op = "get" /\ Get(pending[t].key)
       \/ pending[t].op = "set" /\ Set(pending[t].key, pending[t].result)
       \/ pending[t].op = "delete" /\ Delete(pending[t].key)
       \/ pending[t].op = "clear" /\ Clear
       \/ pending[t].op = "cache_info" /\ CacheInfo
    /\ pc' = [pc EXCEPT ![t] = IF Raises(pending[t]) THEN "raise" ELSE "return"]
    /\ UNCHANGED <<lock, pending, codervars>>

\* an exit that keeps the lock when the body raised
Release_leak(l, t, raised) ==
    IF raised THEN l
    ELSE IF l.count > 1 THEN [l EXCEPT !.count = l.count - 1] ELSE Unlocked

\* RLock.release: one level less, and no owner at level 0
Release(l, t, raised) ==
    IF l.count > 1 THEN [l EXCEPT !.count = l.count - 1] ELSE Unlocked

\* lock.__exit__, on a return and on an exception alike
Exit(t) ==
    /\ pc[t] \in {"return", "raise"}
    /\ lock' = Release(lock, t, pc[t] = "raise")
    /\ pc' = [pc EXCEPT ![t] = "idle"]
    /\ pending' = [pending EXCEPT ![t] = NoCall]
    /\ UNCHANGED <<maxsize, cache, links, root, stat, call, lastset, used, codervars>>

\* LruCache(1)
InitThreads ==
    /\ maxsize = 1
    /\ cache = EmptyDict
    /\ root = 0
    /\ links = [n \in {0} |-> SelfLoop(0)]
    /\ stat = <<FALSE, 0, 0>>
    /\ call = Call("init", FALSE)
    /\ lastset = EmptyDict
    /\ used = <<>>
    /\ NoThreads
    /\ ModuleLoaded

NextThreads ==
    \/ \E t \in Threads, c \in Calls : Begin(t, c)
    \/ \E t \in Threads : Acquire(t)
    \/ \E t \in Threads : Body(t)
    \/ \E t \in Threads : Exit(t)

SpecThreads == InitThreads /\ [][NextThreads]_vars

\* the scheduler runs every thread that can run, and the lock is handed to
\* every thread that keeps asking for it
Fairness ==
    \A t \in Threads :
        /\ SF_vars(Acquire(t))
        /\ WF_vars(Body(t))
        /\ WF_vars(Exit(t))

SpecThreadsFair == SpecThreads /\ Fairness

(* ---- the registry in use ---- *)
\* LruCache(1), which the registry never touches
EngineIdle ==
    /\ maxsize = 1
    /\ cache = EmptyDict
    /\ root = 0
    /\ links = [n \in {0} |-> SelfLoop(0)]
    /\ stat = <<FALSE, 0, 0>>
    /\ call = Call("init", FALSE)
    /\ lastset = EmptyDict
    /\ used = <<>>
    /\ NoThreads

InitRegistry == EngineIdle /\ ModuleLoaded

NextRegistry ==
    \/ \E name \in CoderNames, raw \in RawCoders : Register(name, raw)
    \/ \E name \in CoderNames : RegistryGet(name)

SpecRegistry == InitRegistry /\ [][NextRegistry]_vars

(* ---- the built-in coders in use ---- *)
BuiltIn == {None, "json", "pickle"}

\* the caller picks a built-in coder of the default registry and a value
InitCoder ==
    /\ EngineIdle
    /\ coders = DefaultRegistry
    /\ asked = Asked("init", None, NoCoder)
    /\ trip \in {Trip(name, "data", v, PyNone, PyNone) : name \in BuiltIn, v \in PyValues}

\* binary = registry.get(name).encode(data)
Encode ==
    /\ trip.stage = "data"
    /\ trip' = [trip EXCEPT !.stage = "encoded",
                            !.binary = Apply(registry_get(coders, trip.coder).encode,
                                             trip.data)]
    /\ UNCHANGED <<maxsize, cache, links, root, stat, call, lastset, used,
                   lock, pc, pending, coders, asked>>

\* loaded = registry.get(name).decode(binary)
Decode ==
    /\ trip.stage = "encoded"
    /\ trip' = [trip EXCEPT !.stage = "decoded",
                            !.loaded = Apply(registry_get(coders, trip.coder).decode,
                                             trip.binary)]
    /\ UNCHANGED <<maxsize, cache, links, root, stat, call, lastset, used,
                   lock, pc, pending, coders, asked>>

NextCoder == Encode \/ Decode

SpecCoder == InitCoder /\ [][NextCoder]_vars

(* ---- observations ---- *)
\* the step is a set(key, ...) that raised TypeError at line 92
set_raises_TypeError(key) ==
    /\ ~Found(cache, key)
    /\ ~stat[FULL]
    /\ IsFullRaises(maxsize)
    /\ stat' = stat

hits == stat[HITS]
misses == stat[MISSES]
currsize == cache_info[4]
engine == <<maxsize, cache, links, root, stat>>

\* the keys at the two ends of the ordering
MRU(l, r) == l[l[r][PREV]][KEY]
LRU(l, r) == l[l[r][NEXT]][KEY]

\* the non-root links of the ordering
Entries(l, r) == {Order(l, r)[i] : i \in 2 .. Len(Order(l, r))}

\* the thread is between lock.__enter__ and lock.__exit__
Inside(t) == pc[t] \in {"body", "return", "raise"}

\* every link is in the ring, and prev is the inverse of next
RingOK ==
    /\ root \in DOMAIN links
    /\ Len(Order(links, root)) = Cardinality(DOMAIN links)
    /\ {root} \cup Entries(links, root) = DOMAIN links
    /\ \A n \in DOMAIN links :
          /\ links[n][NEXT] \in DOMAIN links
          /\ links[links[n][NEXT]][PREV] = n
    /\ \A k \in DOMAIN cache : cache[k] \in DOMAIN links \ {root}

TypeOK ==
    /\ maxsize \in 0 .. MaxMaxsize
    /\ DOMAIN cache \subseteq Keys
    /\ DOMAIN links \subseteq LinkIds
    /\ \A n \in DOMAIN links :
          links[n][KEY] \in Keys \cup {None} /\ links[n][RESULT] \in Values
    /\ stat[FULL] \in BOOLEAN /\ hits \in 0 .. MaxCount /\ misses \in 0 .. MaxCount
    /\ DOMAIN lastset = DOMAIN cache
    /\ {used[i] : i \in 1 .. Len(used)} = DOMAIN cache
    /\ Len(used) = Cardinality(DOMAIN cache)

(* ---- claims ---- *)

\* C1: with a positive maxsize the number of live entries (the currsize of
\* cache_info) never exceeds maxsize, whatever get, set, delete and clear
\* calls were made.
CapacityInvariant == maxsize >= 1 => currsize <= maxsize

\* the engine is at capacity after a set, with a link left behind by a delete
CapacityWitness ==
    /\ maxsize >= 1 /\ currsize = maxsize /\ stat[FULL]
    /\ call.op = "set"
    /\ Cardinality(DOMAIN links) > maxsize + 1

\* C2: the map and the ordering are consistent: every key of the map is held
\* by exactly one non-root link, and every non-root link holds a key of the
\* map that maps to that link.
MapOrderConsistent ==
    /\ \A k \in DOMAIN cache :
          Cardinality({n \in Entries(links, root) : links[n][KEY] = k}) = 1
    /\ \A n \in Entries(links, root) :
          /\ links[n][KEY] \in DOMAIN cache
          /\ cache[links[n][KEY]] = n

\* C3: under get and set calls, a set of an absent key on an engine that
\* holds maxsize >= 1 entries does not raise, removes exactly the key whose
\* last get-hit or insertion is oldest and puts the new key, with its value,
\* at the most-recently-used end.
EvictsLeastRecentlyUsed ==
    [][\A key \in Keys, result \in Values :
         (/\ call'.op = "set"
          /\ ~Found(cache, key)
          /\ maxsize >= 1
          /\ currsize = maxsize
          /\ Set(key, result))
         => /\ ~set_raises(key)
            /\ call'.evicted
            /\ DOMAIN cache' = (DOMAIN cache \ {Head(used)}) \cup {key}
            /\ MRU(links', root') = key
            /\ links'[cache'[key]][RESULT] = result]_vars

\* maxsize = 2: a and b inserted, a promoted by a get, then c evicted b
EvictsLeastRecentlyUsedWitness ==
    /\ maxsize = 2
    /\ call.op = "set" /\ call.evicted
    /\ DOMAIN cache = {"a", "c"}
    /\ used = <<"a", "c">>
    /\ hits = 1

\* C4: a set on a key that has an entry stores the value and moves the
\* entry to the most-recently-used end.
OverwritePromotes ==
    [][\A key \in Keys, result \in Values :
         (call'.op = "set" /\ Found(cache, key) /\ Set(key, result))
         => /\ links'[cache'[key]][RESULT] = result
            /\ MRU(links', root') = key]_vars

\* C5: a get of an absent key adds one to misses and leaves hits; a get of
\* a present key adds one to hits, leaves misses, and returns the value of
\* the last set call for that key.
HitMissAccounting ==
    [][\A key \in Keys :
         (call'.op = "get" /\ Get(key)) =>
           IF key \in DOMAIN cache
           THEN /\ hits' = hits + 1
                /\ misses' = misses
                /\ get_returns(key) = lastset[key]
           ELSE /\ misses' = misses + 1
                /\ hits' = hits]_vars

\* after a miss, a hit on a key whose value was set to v1
HitMissAccountingWitness ==
    /\ call.op = "get"
    /\ hits = 1 /\ misses = 1
    /\ \E k \in DOMAIN cache : MRU(links, root) = k /\ lastset[k] = "v1"

\* C6: delete of a key without an entry returns normally and changes nothing.
DeleteAbsentIsNoOp ==
    [][\A key \in Keys :
         (call'.op = "delete" /\ ~Found(cache, key) /\ Delete(key))
         => /\ ~DelRaises(cache, key)
            /\ UNCHANGED engine]_vars

\* C7: delete of a present key k takes one off the live count, changes
\* neither counter and leaves k absent, so that get(k) returns the sentinel
\* (and changes neither the map nor the full flag); a set(k, v) that follows
\* adds one to the live count again and stores v, which get(k) then returns.
DeleteThenReinsert ==
    [][\A key \in Keys :
         /\ (call'.op = "delete" /\ Found(cache, key) /\ Delete(key))
            => /\ currsize' = currsize - 1
               /\ ~Found(cache', key)
               /\ hits' = hits /\ misses' = misses
               /\ ~stat'[FULL]
         /\ (call'.op = "get" /\ ~Found(cache, key) /\ Get(key))
            => /\ get_returns(key) = SENTINEL
               /\ cache' = cache
               /\ stat'[FULL] = stat[FULL]
         /\ \A result \in Values :
              (call'.op = "set" /\ ~Found(cache, key) /\ ~stat[FULL] /\ Set(key, result))
              => /\ ~set_raises(key)
                 /\ currsize' = currsize + 1
                 /\ Found(cache', key)
                 /\ get_returns(key)' = result]_vars

\* a key was deleted and set again: its old link is still in the ring
DeleteThenReinsertWitness ==
    /\ maxsize >= 1
    /\ call.op = "set"
    /\ \E k \in DOMAIN cache :
         \E n \in Entries(links, root) : links[n][KEY] = k /\ cache[k] # n

\* C8: clear leaves cache_info at (0, 0, maxsize, 0) and no key present, so
\* every get returns the sentinel; a clear after a clear changes nothing; and
\* below maxsize entries a set of a new key adds it and removes nothing.
ClearResets ==
    [][/\ (call'.op = "clear" /\ Clear)
          => /\ cache_info' = <<0, 0, maxsize, 0>>
             /\ \A key \in Keys : get_returns(key)' = SENTINEL
             /\ call.op = "clear" => UNCHANGED engine
       /\ \A key \in Keys, result \in Values :
            (/\ call'.op = "set"
             /\ ~Found(cache, key)
             /\ currsize < maxsize
             /\ Set(key, result))
            => /\ ~set_raises(key)
               /\ DOMAIN cache' = DOMAIN cache \cup {key}]_vars

\* a cleared engine
ClearResetsWitness ==
    /\ call.op = "clear"
    /\ maxsize = MaxMaxsize
    /\ cache_info = <<0, 0, maxsize, 0>>
    /\ DOMAIN links = {root}

\* C9: get returns the sentinel exactly when the key has no entry; for a
\* present key it returns the stored value, None included, and counts a hit
\* and no miss.
SentinelOnlyOnMiss ==
    [][\A key \in Keys :
         (call'.op = "get" /\ Get(key)) =>
           /\ (get_returns(key) = SENTINEL) <=> ~Found(cache, key)
           /\ Found(cache, key) =>
                /\ get_returns(key) \in Values
                /\ get_returns(key) = lastset[key]
                /\ hits' = hits + 1
                /\ misses' = misses]_vars

\* a hit on a key whose value was set to None, with no miss so far
SentinelOnlyOnMissWitness ==
    /\ call.op = "get"
    /\ hits = 1 /\ misses = 0
    /\ \E k \in DOMAIN cache : MRU(links, root) = k /\ lastset[k] = None

\* C10: with maxsize = 0 the engine never holds an entry, so that every get
\* returns the sentinel.
ZeroMaxsizeStoresNothing ==
    maxsize = 0 => (currsize = 0 /\ \A key \in Keys : get_returns(key) = SENTINEL)

\* C11: a get, set, delete or clear call that ends with an error leaves the
\* engine (map, links and root, full flag, counters) as it was before the
\* call.  get and clear have no raising statement; set raises by line 79 and
\* delete by line 53.
FailedCallChangesNothing ==
    [][\A key \in Keys :
         /\ (call'.op = "delete" /\ DelRaises(cache, key) /\ Delete(key))
            => UNCHANGED engine
         /\ \A result \in Values :
              (call'.op = "set" /\ set_raises(key) /\ Set(key, result))
              => UNCHANGED engine]_vars

\* C19: with maxsize >= 1, in every state reached by get, set, clear and
\* delete calls on present keys, set(key, value) raises for no key.
NextPresentDelete ==
    \/ \E key \in Keys : Serial(Get(key))
    \/ \E key \in Keys, result \in Values : Serial(Set(key, result))
    \/ \E key \in DOMAIN cache : Serial(Delete(key))
    \/ Serial(Clear)

SpecPresentDelete == Init /\ [][NextPresentDelete]_vars

SetNeverRaises == maxsize >= 1 => \A key \in Keys : ~set_raises(key)

\* C20: a key leaves the map only by delete(k), by clear, or by a set that
\* evicts it while it is the live key whose last get-hit or insertion is
\* oldest.
RemovedOnlyWhenLeastRecent ==
    [][\A k \in DOMAIN cache :
         k \notin DOMAIN cache' =>
           \/ call'.op = "clear"
           \/ call'.op = "delete" /\ Delete(k)
           \/ call'.op = "set" /\ call'.evicted /\ k = Head(used)]_vars

\* C18: on an engine made with maxsize = None no eviction happens: a set of
\* a new key raises nothing and adds the key, and a get or set call removes
\* no key from the map.
UnboundedNeverEvicts ==
    [][/\ \A key \in Keys, result \in Values :
            (call'.op = "set" /\ ~Found(cache, key) /\ Set(key, result))
            => /\ ~set_raises(key)
               /\ ~set_raises_TypeError(key)
               /\ ~call'.evicted
               /\ DOMAIN cache' = DOMAIN cache \cup {key}
       /\ call'.op \in {"get", "set"} => DOMAIN cache \subseteq DOMAIN cache']_vars

\* C12: with two threads calling get, set, delete, clear and cache_info in
\* any interleaving, at most one thread is inside an operation body, and it
\* owns the lock; the map, the ring and the counters change only by the body
\* of that thread, run as a whole while no other thread is inside; and the
\* ring every thread finds is whole.
OneThreadInside ==
    /\ [](/\ \A t, u \in Threads : (Inside(t) /\ Inside(u)) => t = u
          /\ \A t \in Threads : Inside(t) => lock.owner = t
          /\ RingOK)
    /\ [][engine' # engine =>
            \E t \in Threads :
               /\ lock.owner = t
               /\ pc[t] = "body" /\ pc'[t] \in {"return", "raise"}
               /\ \A u \in Threads \ {t} : ~Inside(u) /\ pc'[u] = pc[u]]_vars

\* t1 is in the body of a set, with get calls of t2 waiting for the lock
OneThreadInsideWitness ==
    /\ pc["t1"] = "body" /\ pending["t1"].op = "set"
    /\ pc["t2"] = "with" /\ pending["t2"].op = "get"
    /\ lock.owner = "t1"
    /\ cache_len(cache) = 1

\* C13: a thread that is not in a call does not own the lock, whether its
\* call returned or raised, and the lock is taken at most once; and with
\* fair scheduling every call that was begun gets the lock and ends.
LockAlwaysReleased ==
    /\ [](/\ \A t \in Threads : pc[t] \in {"idle", "with"} => lock.owner # t
          /\ lock.count <= 1
          /\ (lock.owner = None) <=> (lock.count = 0))
    /\ \A t \in Threads : (pc[t] = "with") ~> (pc[t] = "idle")

\* t2 waits for the lock while t1 leaves a set that raised KeyError
LockAlwaysReleasedWitness ==
    /\ pc["t1"] = "raise" /\ pending["t1"].op = "set"
    /\ pc["t2"] = "with"
    /\ lock.owner = "t1"

\* C14: Registry.get(name) changes neither the registered names nor their
\* coders; it returns the coder stored under a registered name and None for
\* an unregistered one (dict.get raises for no name that can be a key).
RegistryGetIsPure ==
    [][\A name \in {asked'.name} :
         (asked'.op = "get" /\ RegistryGet(name)) =>
           /\ coders' = coders
           /\ DOMAIN coders' = DOMAIN coders
           /\ name \in DOMAIN coders => registry_get(coders, name) = coders[name]
           /\ name \notin DOMAIN coders => registry_get(coders, name) = NoCoder]_vars

\* a get of an unregistered name, after a coder was registered
RegistryGetIsPureWitness ==
    /\ asked.op = "get"
    /\ asked.name \notin DOMAIN coders
    /\ coders # DefaultRegistry

\* the encode and decode that a raw coder supplies
Supplied(raw) ==
    IF raw.type = "tuple" THEN <<raw.items[1], raw.items[2]>>
    ELSE <<raw.encode, raw.decode>>

\* C15: after a register(name, raw_coder) that does not raise, get(name)
\* returns a coder whose encode and decode are the ones raw_coder supplied,
\* whatever was registered under name before; get of every other name
\* returns what it did; and the names are those of before and name.
RegisterStoresCoder ==
    [][\A name \in {asked'.name}, raw \in {asked'.raw} :
         (asked'.op = "register" /\ ~coderize_raises(raw) /\ Register(name, raw)) =>
           /\ registry_get(coders', name).encode = Supplied(raw)[1]
           /\ registry_get(coders', name).decode = Supplied(raw)[2]
           /\ \A other \in CoderNames \ {name} :
                 registry_get(coders', other) = registry_get(coders, other)
           /\ DOMAIN coders' = DOMAIN coders \cup {name}]_vars

\* the tuple (g, f) was registered as 'json', in the place of the JsonCoder
RegisterStoresCoderWitness ==
    /\ asked = Asked("register", "json", Obj("tuple", <<"g", "f">>, Missing, Missing))
    /\ coders["json"] = CoderTuple("g", "f")
    /\ coders["pickle"] = CoderTuple("pickle.dumps", "pickle.loads")

\* C16: register with a raw coder that is no Coder or CoderTuple, no tuple,
\* and lacks encode or decode raises TypeError; and a register that raises
\* leaves the registry as it was.
InvalidCoderRejected ==
    [][\A name \in {asked'.name}, raw \in {asked'.raw} :
         (asked'.op = "register" /\ Register(name, raw)) =>
           /\ (/\ ~IsCoder(raw)
               /\ raw.type # "tuple"
               /\ (raw.encode = Missing \/ raw.decode = Missing))
              => coderize_raises(raw)
           /\ coderize_raises(raw) => coders' = coders]_vars

\* an object without decode was turned down for 'mine', which keeps the
\* coder registered before
InvalidCoderRejectedWitness ==
    /\ asked = Asked("register", "mine", Obj("object", <<>>, "f", Missing))
    /\ "mine" \in DOMAIN coders
    /\ coders["mine"] = CoderTuple("f", "g")

\* the values made of None, bools, ints, strs, lists and dicts
RECURSIVE NoTuple(_)
NoTuple(v) ==
    /\ v.t # "tuple"
    /\ \A i \in 1 .. Len(v.items) : NoTuple(v.items[i])

\* and of these, the ones whose dicts have str keys only
RECURSIVE StrKeys(_)
StrKeys(v) ==
    /\ v.t = "dict" => \A i \in 1 .. Len(v.items) : v.items[i].items[1].t = "str"
    /\ \A i \in 1 .. Len(v.items) : StrKeys(v.items[i])

====
